---- MODULE Spec2Model ----
(***************************************************************************)
(* Email enrichment pipeline of cold-email-tools                           *)
(* (src/email_enrichment/pipeline.py, src/email_enrichment/config.py).     *)
(*                                                                         *)
(* A Python str is a sequence of one-character strings; three tokens stand *)
(* for characters outside 7-bit ASCII:                                     *)
(*   "e^"  U+00E9, e with acute, whose canonical decomposition is e, U+0301*)
(*   "^"   U+0301, combining acute accent (category Mn)                    *)
(*   "o/"  U+00F8, o with stroke, which has no decomposition               *)
(* An Optional value is a sequence of length 0 (None) or 1.                *)
(* A dict is a function from its present keys; JSON null is JsonNull.      *)
(***************************************************************************)
EXTENDS Integers, Sequences, FiniteSets, TLC

\* ------------------------------------------------------------------ bounds

\* Longest first name / last name / domain drawn for the pure functions.
MaxFirstLen == 3
MaxLastLen == 2
MaxDomainLen == 1
\* Most rows in the leads file.
MaxLeads == 2

\* --------------------------------------------------------- Python builtins

None == << >>
Some(x) == << x >>

\* str truthiness: the empty string is falsy.
Truthy(s) == s # << >>

\* x or default, for an Optional str.
OrElse(opt, default) == IF opt = None \/ ~Truthy(opt[1]) THEN default ELSE opt[1]

Min(a, b) == IF a <= b THEN a ELSE b

RECURSIVE Concat(_)
Concat(ss) == IF ss = << >> THEN << >> ELSE Head(ss) \o Concat(Tail(ss))

\* sep.join(items)
RECURSIVE Join(_, _)
Join(sep, items) ==
    IF items = << >> THEN << >>
    ELSE IF Len(items) = 1 THEN items[1]
    ELSE items[1] \o sep \o Join(sep, Tail(items))

LowerChar(c) ==
    CASE c = "A" -> "a"
      [] c = "B" -> "b"
      [] OTHER -> c

\* str.lower()
Lower(s) == [i \in 1..Len(s) |-> LowerChar(s[i])]

Whitespace == {" "}

RECURSIVE LStrip(_)
LStrip(s) == IF s # << >> /\ Head(s) \in Whitespace THEN LStrip(Tail(s)) ELSE s

RECURSIVE RStrip(_)
RStrip(s) ==
    IF s # << >> /\ s[Len(s)] \in Whitespace
    THEN RStrip(SubSeq(s, 1, Len(s) - 1))
    ELSE s

\* str.strip()
Strip(s) == RStrip(LStrip(s))

\* first.replace("-", "")
RECURSIVE RemoveHyphens(_)
RemoveHyphens(s) ==
    IF s = << >> THEN << >>
    ELSE IF Head(s) = "-" THEN RemoveHyphens(Tail(s))
    ELSE << Head(s) >> \o RemoveHyphens(Tail(s))

\* first.split("-")[0]
RECURSIVE BeforeFirstHyphen(_)
BeforeFirstHyphen(s) ==
    IF s = << >> \/ Head(s) = "-" THEN << >>
    ELSE << Head(s) >> \o BeforeFirstHyphen(Tail(s))

\* ord(c) > 127
NonAscii(c) == c \in {"e^", "^", "o/"}

\* unicodedata.normalize("NFD", s)
NFDChar(c) == IF c = "e^" THEN << "e", "^" >> ELSE << c >>

RECURSIVE NFD(_)
NFD(s) == IF s = << >> THEN << >> ELSE NFDChar(Head(s)) \o NFD(Tail(s))

\* unicodedata.category(c) != "Mn"
NotMn(c) == c # "^"

\* "".join(c for c in unicodedata.normalize("NFD", s) if category(c) != "Mn")
AsciiFold(s) == SelectSeq(NFD(s), NotMn)

\* The "remove duplicates while preserving order" loop: seen set, append if new.
RECURSIVE DedupLoop(_, _, _)
DedupLoop(items, seen, unique) ==
    IF items = << >> THEN unique
    ELSE IF Head(items) \in seen
         THEN DedupLoop(Tail(items), seen, unique)
         ELSE DedupLoop(Tail(items), seen \cup {Head(items)}, Append(unique, Head(items)))

RemoveDuplicates(items) == DedupLoop(items, {}, << >>)

\* --------------------------------------------------- generate_name_variants

\* NameVariantList that returns the input pair alone when first or last is empty.
NameVariantList_single_when_empty(first, last) ==
    IF first = << >> \/ last = << >>
    THEN << << first, last >> >>
    ELSE LET variants == << << first, last >>,
                            << RemoveHyphens(first), last >>,
                            << BeforeFirstHyphen(first), last >> >>
         IN  IF \E i \in 1..Len(first \o last) : NonAscii((first \o last)[i])
             THEN Append(variants, << AsciiFold(first), AsciiFold(last) >>)
             ELSE variants

\* NameVariantList without the accent-folded variant.
NameVariantList_never_folds(first, last) ==
    << << first, last >>,
       << RemoveHyphens(first), last >>,
       << BeforeFirstHyphen(first), last >> >>

\* NameVariantList with the first-segment variant ahead of the hyphen-stripped one.
NameVariantList_swapped(first, last) ==
    LET variants == << << first, last >>,
                       << BeforeFirstHyphen(first), last >>,
                       << RemoveHyphens(first), last >> >>
    IN  IF \E i \in 1..Len(first \o last) : NonAscii((first \o last)[i])
        THEN Append(variants, << AsciiFold(first), AsciiFold(last) >>)
        ELSE variants

NameVariantList(first, last) ==
    LET variants == << << first, last >>,
                       << RemoveHyphens(first), last >>,
                       << BeforeFirstHyphen(first), last >> >>
    IN  IF \E i \in 1..Len(first \o last) : NonAscii((first \o last)[i])
        THEN Append(variants, << AsciiFold(first), AsciiFold(last) >>)
        ELSE variants

generate_name_variants(first, last) == RemoveDuplicates(NameVariantList(first, last))

\* ------------------------------------------------- generate_email_patterns

\* PatternList with first-last ahead of first_last.
PatternList_swapped(first, last, domain) ==
    LET at == << "@" >> \o domain
    IN  << first \o at,
           first \o << "." >> \o last \o at,
           first \o last \o at,
           << first[1] >> \o << "." >> \o last \o at,
           << first[1] >> \o last \o at,
           first \o << "-" >> \o last \o at,
           first \o << "_" >> \o last \o at,
           first \o << "." >> \o << last[1] >> \o at,
           last \o << "." >> \o first \o at >>

\* The nine f-strings, in the order the list literal gives them.
PatternList(first, last, domain) ==
    LET at == << "@" >> \o domain
    IN  << first \o at,
           first \o << "." >> \o last \o at,
           first \o last \o at,
           << first[1] >> \o << "." >> \o last \o at,
           << first[1] >> \o last \o at,
           first \o << "_" >> \o last \o at,
           first \o << "-" >> \o last \o at,
           first \o << "." >> \o << last[1] >> \o at,
           last \o << "." >> \o first \o at >>

\* The slice taken one entry too far.
Truncate_off_by_one(items, cap) == SubSeq(items, 1, Min(cap + 1, Len(items)))

\* unique_patterns[:MAX_PATTERNS_PER_LEAD], for a non-negative cap
Truncate(items, cap) == SubSeq(items, 1, Min(cap, Len(items)))

generate_email_patterns(first_name, last_name, domain, cap) ==
    LET first == Strip(Lower(first_name))
        last  == Strip(Lower(last_name))
    IN  IF ~Truthy(first) \/ ~Truthy(last) \/ ~Truthy(domain)
        THEN << >>
        ELSE Truncate(RemoveDuplicates(PatternList(first, last, domain)), cap)

\* ---------------------------------------------------------------- config

\* config.py: MAX_PATTERNS_PER_LEAD = int(os.getenv("MAX_PATTERNS_PER_LEAD", "20"))
DEFAULT_MAX_PATTERNS_PER_LEAD == 20

\* Values of the cap the environment may set; a cap is taken to be >= 1.
MaxPatternsChoices == {1, 3, DEFAULT_MAX_PATTERNS_PER_LEAD}

\* The caps the pipeline runs are explored under (short candidate lists).
PipelineMaxPatternsChoices == {1, 3}

\* ----------------------------------------------------------------- state

VARIABLES
    INCLUDE_RISKY,          \* config.py: env INCLUDE_RISKY == "true"
    MAX_PATTERNS_PER_LEAD,  \* config.py: env MAX_PATTERNS_PER_LEAD
    leads,                  \* rows of the leads DataFrame
    lead_pos,               \* rows of leads_df.iterrows() consumed so far
    pc,                     \* where _validate_leads stands
    first_name, last_name, domain,   \* the current lead's stripped fields
    unique_patterns,        \* the current lead's merged candidate list
    pattern_idx,            \* enumerate(unique_patterns, 1) position
    best_email, best_status, best_result,
    patterns_tested, patterns_validated,
    log,                    \* current lead: oracle calls and sleeps, in order
    validated_records,      \* records appended so far
    input_file,             \* INPUT_LEADS_CSV: None, or Some([columns, rows])
    raised,                 \* the exception that left run(), if any (Optional)
    exported,               \* _export_csv has written the output file
    last_event,             \* the run's latest "call" or "sleep" ("none" before)
    fn,                     \* the function a direct call applied ("" before)
    fn_first, fn_last, fn_domain,    \* arguments of a direct call
    fn_ret,                 \* value a direct call returned (Optional)
    RUN_POLL_INTERVAL_S,    \* linkedin config.py, in clock ticks
    RUN_POLL_TIMEOUT_S,     \* linkedin config.py, in clock ticks
    li_pc,                  \* where LinkedInAutomationPipeline.run stands
    li_input_file,          \* linkedin INPUT_LEADS_CSV: None, or Some([columns, rows])
    leads_df,               \* rows of the LinkedIn leads DataFrame
    li_idx,                 \* rows of leads_df.iterrows() consumed so far
    linkedin_url, note,     \* the current lead's stripped fields
    profile_visit_result,   \* dict returned by _visit_profile (Optional)
    connect_result,         \* dict returned by _send_connection_request (Optional)
    results,                \* result records appended so far
    runs_created,           \* runs the API has created, in order
    li_raised,              \* the exception that left run(), if any (Optional)
    li_exported,            \* _export_csv has written the results file
    poll_pc,                \* where poll_run_until_complete stands
    poll_run_id,            \* its run_id argument
    poll_clock,             \* time.time() - start_time, in ticks
    poll_log,               \* its checks, get_run calls and sleeps, in order
    poll_ret,               \* the run_data it returned (Optional)
    poll_exc                \* the exception it raised (Optional)

config_vars == << INCLUDE_RISKY, MAX_PATTERNS_PER_LEAD >>
lead_vars == << first_name, last_name, domain, unique_patterns, pattern_idx,
                best_email, best_status, best_result,
                patterns_tested, patterns_validated, log >>
run_vars == << input_file, raised, exported, last_event >>
pipeline_vars == << leads, lead_pos, pc, lead_vars, validated_records, run_vars >>
fn_vars == << fn, fn_first, fn_last, fn_domain, fn_ret >>
poll_vars == << poll_pc, poll_run_id, poll_clock, poll_log, poll_ret, poll_exc >>
li_lead_vars == << linkedin_url, note, profile_visit_result, connect_result >>
linkedin_vars == << RUN_POLL_INTERVAL_S, RUN_POLL_TIMEOUT_S, li_pc, li_input_file,
                    leads_df, li_idx, li_lead_vars, results, runs_created,
                    li_raised, li_exported, poll_vars >>
vars == << config_vars, pipeline_vars, fn_vars, linkedin_vars >>

\* All strings over chars of length at most n.
RECURSIVE StringsUpTo(_, _)
StringsUpTo(chars, n) ==
    IF n = 0 THEN { << >> }
    ELSE LET shorter == StringsUpTo(chars, n - 1)
         IN  shorter \cup { Append(s, c) : s \in shorter, c \in chars }

\* poll_run_until_complete is not running.
PollIdle ==
    /\ poll_pc = "idle"
    /\ poll_run_id = << >>
    /\ poll_clock = 0
    /\ poll_log = << >>
    /\ poll_ret = << >>
    /\ poll_exc = << >>

\* The LinkedIn pipeline is not running.
LinkedInIdle ==
    /\ RUN_POLL_INTERVAL_S = 1
    /\ RUN_POLL_TIMEOUT_S = 1
    /\ li_pc = "idle"
    /\ li_input_file = << >>
    /\ leads_df = << >>
    /\ li_idx = 0
    /\ linkedin_url = << >> /\ note = << >>
    /\ profile_visit_result = << >> /\ connect_result = << >>
    /\ results = << >>
    /\ runs_created = << >>
    /\ li_raised = << >>
    /\ li_exported = FALSE
    /\ PollIdle

PipelineIdle ==
    /\ leads = << >>
    /\ lead_pos = 0
    /\ pc = "idle"
    /\ first_name = << >> /\ last_name = << >> /\ domain = << >>
    /\ unique_patterns = << >>
    /\ pattern_idx = 0
    /\ best_email = None /\ best_status = None /\ best_result = None
    /\ patterns_tested = 0 /\ patterns_validated = 0
    /\ log = << >>
    /\ validated_records = << >>
    /\ input_file = None
    /\ raised = None
    /\ exported = FALSE
    /\ last_event = "none"

\* ------------------------------- direct calls of generate_email_patterns

PatternFirstNames == StringsUpTo({"a", "B", " "}, MaxFirstLen)
PatternLastNames == StringsUpTo({"a", "B", " "}, MaxLastLen)
PatternDomains == StringsUpTo({"d", " "}, MaxDomainLen)

InitPatterns ==
    /\ INCLUDE_RISKY = FALSE
    /\ MAX_PATTERNS_PER_LEAD \in MaxPatternsChoices
    /\ PipelineIdle
    /\ LinkedInIdle
    /\ fn = ""
    /\ fn_first \in PatternFirstNames
    /\ fn_last \in PatternLastNames
    /\ fn_domain \in PatternDomains
    /\ fn_ret = None

CallGenerateEmailPatterns ==
    /\ fn = ""
    /\ fn' = "generate_email_patterns"
    /\ fn_ret' = Some(generate_email_patterns(fn_first, fn_last, fn_domain,
                                              MAX_PATTERNS_PER_LEAD))
    /\ UNCHANGED << config_vars, linkedin_vars, pipeline_vars, fn_first, fn_last, fn_domain >>

NextPatterns == CallGenerateEmailPatterns

SpecPatterns == InitPatterns /\ [][NextPatterns]_vars

\* -------------------------------- direct calls of generate_name_variants

VariantFirstNames == StringsUpTo({"a", "-", "e^", "o/"}, MaxFirstLen)
VariantLastNames == StringsUpTo({"b", "e^"}, MaxLastLen)

InitVariants ==
    /\ INCLUDE_RISKY = FALSE
    /\ MAX_PATTERNS_PER_LEAD = DEFAULT_MAX_PATTERNS_PER_LEAD
    /\ PipelineIdle
    /\ LinkedInIdle
    /\ fn = ""
    /\ fn_first \in VariantFirstNames
    /\ fn_last \in VariantLastNames
    /\ fn_domain = << >>
    /\ fn_ret = None

CallGenerateNameVariants ==
    /\ fn = ""
    /\ fn' = "generate_name_variants"
    /\ fn_ret' = Some(generate_name_variants(fn_first, fn_last))
    /\ UNCHANGED << config_vars, linkedin_vars, pipeline_vars, fn_first, fn_last, fn_domain >>

NextVariants == CallGenerateNameVariants

SpecVariants == InitVariants /\ [][NextVariants]_vars

\* ------------------------------------------------------------ the oracle

\* dict.get(key, default)
Get(d, key, default) == IF key \in DOMAIN d THEN d[key] ELSE default

EmptyDict == << >>

\* JSON null, as a value of a dict key.
JsonNull == [json_null |-> TRUE]

\* What requests.post / raise_for_status / resp.json() can do for one call:
\* raise a RequestException (network error, non-2xx), or hand back a body.
FullMisc == [is_disposable |-> FALSE, is_role_account |-> TRUE]
FullMx == [records |-> << << "m", "x" >>, << "m", "y" >> >>]

OracleOutcomes ==
    { [kind |-> "error"],
      [kind |-> "json", body |-> [is_reachable |-> "safe",
            smtp |-> [is_deliverable |-> TRUE], misc |-> FullMisc, mx |-> FullMx]],
      [kind |-> "json", body |-> [is_reachable |-> "risky",
            smtp |-> [is_deliverable |-> TRUE], misc |-> FullMisc, mx |-> FullMx]],
      [kind |-> "json", body |-> [is_reachable |-> "invalid",
            smtp |-> [is_deliverable |-> TRUE]]],
      [kind |-> "json", body |-> [is_reachable |-> "unknown",
            smtp |-> [is_deliverable |-> TRUE]]],
      [kind |-> "json", body |-> [is_reachable |-> "safe",
            smtp |-> [is_deliverable |-> FALSE]]],
      [kind |-> "json", body |-> [smtp |-> [is_deliverable |-> TRUE]]],
      [kind |-> "json", body |-> [is_reachable |-> "risky",
            smtp |-> [is_deliverable |-> TRUE], misc |-> JsonNull]],
      [kind |-> "json", body |-> [is_reachable |-> "safe",
            smtp |-> [is_deliverable |-> TRUE], mx |-> JsonNull]],
      [kind |-> "json", body |-> [is_reachable |-> "safe", smtp |-> JsonNull]] }

\* validate_email whose synthetic dict carries a null smtp block.
validate_email_null_smtp(outcome) ==
    IF outcome.kind = "error"
    THEN [is_reachable |-> "invalid", smtp |-> JsonNull, error |-> "err"]
    ELSE outcome.body

\* ReacherClient.validate_email: the body, or the synthetic dict of the
\* except branch.
validate_email(outcome) ==
    IF outcome.kind = "error"
    THEN [is_reachable |-> "invalid", is_reachable_smtp |-> FALSE,
          can_connect_smtp |-> FALSE, error |-> "err"]
    ELSE outcome.body

\* result["email"] = pattern
WithEmail(result, pattern) ==
    [k \in DOMAIN result \cup {"email"} |->
        IF k = "email" THEN pattern ELSE result[k]]

\* ------------------------------------------------------- _validate_leads

\* A cell of the DataFrame: a str, or None for an empty cell (NaN).
\* str(NaN) is "nan".
CellStr(cell) == IF cell = None THEN << "n", "a", "n" >> ELSE cell[1]

LeadRows ==
    { [first_name |-> Some(<< "a" >>), last_name |-> Some(<< "B" >>),
       company_domain |-> Some(<< "d" >>)],
      [first_name |-> Some(<< " " >>), last_name |-> Some(<< "B" >>),
       company_domain |-> Some(<< "d" >>)] }

RECURSIVE SeqsUpTo(_, _)
SeqsUpTo(S, n) ==
    IF n = 0 THEN { << >> }
    ELSE LET shorter == SeqsUpTo(S, n - 1)
         IN  shorter \cup { Append(q, x) : q \in shorter, x \in S }

\* The merged list without the removal of duplicates.
MergedPatterns_no_dedup(first, last, dom, cap) ==
    LET name_variants == generate_name_variants(first, last)
    IN  Concat([i \in 1..Len(name_variants) |->
            generate_email_patterns(name_variants[i][1], name_variants[i][2],
                                    dom, cap)])

\* Lines 249-264: variants, patterns per variant, merged and deduplicated.
MergedPatterns(first, last, dom, cap) ==
    LET name_variants == generate_name_variants(first, last)
        all_patterns ==
            Concat([i \in 1..Len(name_variants) |->
                generate_email_patterns(name_variants[i][1], name_variants[i][2],
                                        dom, cap)])
    IN  RemoveDuplicates(all_patterns)

\* --------------------------------------------------------- _load_leads

RequiredCols == {"first_name", "last_name", "company_domain"}

\* A row as a file without some columns holds it.
RestrictRow(row, cols) == [c \in cols |-> row[c]]

\* The states of INPUT_LEADS_CSV: no file, a file lacking one required column
\* (with at most one row), or a file with all three and up to MaxLeads rows.
InputFiles(rows) ==
    { None }
    \cup { Some([columns |-> RequiredCols \ {c},
                 rows |-> [i \in DOMAIN rs |-> RestrictRow(rs[i], RequiredCols \ {c})]]) :
             c \in RequiredCols, rs \in SeqsUpTo(rows, 1) }
    \cup { Some([columns |-> RequiredCols, rows |-> rs]) : rs \in SeqsUpTo(rows, MaxLeads) }

\* _load_leads without the test for missing columns.
load_leads_no_column_check(file) ==
    IF file = None
    THEN [raised |-> Some("FileNotFoundError"), df |-> << >>]
    ELSE [raised |-> None, df |-> file[1].rows]

\* Lines 212-227: the exception raised, or the DataFrame's rows.
load_leads(file) ==
    IF file = None
    THEN [raised |-> Some("FileNotFoundError"), df |-> << >>]
    ELSE IF RequiredCols \ file[1].columns # {}
    THEN [raised |-> Some("ValueError"), df |-> << >>]
    ELSE [raised |-> None, df |-> file[1].rows]

InitPipeline(files, caps, risky) ==
    /\ INCLUDE_RISKY \in risky
    /\ MAX_PATTERNS_PER_LEAD \in caps
    /\ input_file \in files
    /\ leads = << >>
    /\ lead_pos = 0
    /\ pc = "load_leads"
    /\ first_name = << >> /\ last_name = << >> /\ domain = << >>
    /\ unique_patterns = << >>
    /\ pattern_idx = 0
    /\ best_email = None /\ best_status = None /\ best_result = None
    /\ patterns_tested = 0 /\ patterns_validated = 0
    /\ log = << >>
    /\ validated_records = << >>
    /\ raised = None
    /\ exported = FALSE
    /\ last_event = "none"
    /\ fn = "" /\ fn_first = << >> /\ fn_last = << >> /\ fn_domain = << >>
    /\ fn_ret = None
    /\ LinkedInIdle

Init == InitPipeline(InputFiles(LeadRows), PipelineMaxPatternsChoices, BOOLEAN)

\* Lines 204-208: run() loads the leads; an exception of _load_leads leaves run().
LoadLeads ==
    /\ pc = "load_leads"
    /\ LET loaded == load_leads(input_file)
       IN  /\ raised' = loaded.raised
           /\ leads' = loaded.df
           /\ pc' = IF loaded.raised = None THEN "next_lead" ELSE "raised"
    /\ UNCHANGED << config_vars, linkedin_vars, lead_pos, lead_vars, validated_records, input_file,
                    exported, last_event, fn_vars >>

\* lead.get(col, "")
LeadGet(lead, col) == Get(lead, col, Some(<< >>))

\* NextLead without lines 276-280: the best held and the hit counter of the
\* previous lead are kept.
NextLead_no_reset ==
    /\ pc = "next_lead"
    /\ IF lead_pos = Len(leads)
       THEN /\ pc' = "done"
            /\ UNCHANGED << lead_pos, lead_vars >>
       ELSE LET lead == leads[lead_pos + 1]
                f == Strip(CellStr(LeadGet(lead, "first_name")))
                l == Strip(CellStr(LeadGet(lead, "last_name")))
                d == Strip(CellStr(LeadGet(lead, "company_domain")))
            IN  /\ lead_pos' = lead_pos + 1
                /\ first_name' = f /\ last_name' = l /\ domain' = d
                /\ IF ~Truthy(f) \/ ~Truthy(l) \/ ~Truthy(d)
                   THEN /\ pc' = "next_lead"
                        /\ UNCHANGED << unique_patterns, pattern_idx, best_email,
                                        best_status, best_result, patterns_tested,
                                        patterns_validated, log >>
                   ELSE /\ unique_patterns' =
                               MergedPatterns(f, l, d, MAX_PATTERNS_PER_LEAD)
                        /\ pattern_idx' = 0
                        /\ patterns_tested' = 0
                        /\ log' = << >>
                        /\ pc' = "loop"
                        /\ UNCHANGED << best_email, best_status, best_result,
                                        patterns_validated >>
    /\ UNCHANGED << config_vars, linkedin_vars, leads, validated_records, run_vars, fn_vars >>

\* Lines 237-280: take the next row; skip it, or build its candidate list and
\* reset the search state.  With no row left the loop over the leads ends.
NextLead ==
    /\ pc = "next_lead"
    /\ IF lead_pos = Len(leads)
       THEN /\ pc' = "done"
            /\ UNCHANGED << lead_pos, lead_vars >>
       ELSE LET lead == leads[lead_pos + 1]
                f == Strip(CellStr(LeadGet(lead, "first_name")))
                l == Strip(CellStr(LeadGet(lead, "last_name")))
                d == Strip(CellStr(LeadGet(lead, "company_domain")))
            IN  /\ lead_pos' = lead_pos + 1
                /\ first_name' = f /\ last_name' = l /\ domain' = d
                /\ IF ~Truthy(f) \/ ~Truthy(l) \/ ~Truthy(d)
                   THEN /\ pc' = "next_lead"
                        /\ UNCHANGED << unique_patterns, pattern_idx, best_email,
                                        best_status, best_result, patterns_tested,
                                        patterns_validated, log >>
                   ELSE /\ unique_patterns' =
                               MergedPatterns(f, l, d, MAX_PATTERNS_PER_LEAD)
                        /\ pattern_idx' = 0
                        /\ best_email' = None /\ best_status' = None
                        /\ best_result' = None
                        /\ patterns_tested' = 0 /\ patterns_validated' = 0
                        /\ log' = << >>
                        /\ pc' = IF unique_patterns' = << >> THEN "record" ELSE "loop"
    /\ UNCHANGED << config_vars, linkedin_vars, leads, validated_records, run_vars, fn_vars >>

\* Decide that stops the loop on a stored risky result.
Decide_risky_breaks(pattern, status, result, include_risky, cur_email, cur_status, cur_result) ==
    IF status = "safe"
    THEN << Some(pattern), Some(status), Some(result), TRUE >>
    ELSE IF status = "risky" /\ cur_status # Some("safe") /\ include_risky
    THEN << Some(pattern), Some(status), Some(result), TRUE >>
    ELSE << cur_email, cur_status, cur_result, FALSE >>

\* Decide without the break on a safe result.
Decide_no_break(pattern, status, result, include_risky, cur_email, cur_status, cur_result) ==
    IF status = "safe"
    THEN << Some(pattern), Some(status), Some(result), FALSE >>
    ELSE IF status = "risky" /\ cur_status # Some("safe") /\ include_risky
    THEN << Some(pattern), Some(status), Some(result), FALSE >>
    ELSE << cur_email, cur_status, cur_result, FALSE >>

\* Decide that keeps a held risky best (elif ... and best_status is None).
Decide_first_risky_wins(pattern, status, result, include_risky, cur_email, cur_status, cur_result) ==
    IF status = "safe"
    THEN << Some(pattern), Some(status), Some(result), TRUE >>
    ELSE IF status = "risky" /\ cur_status = None /\ include_risky
    THEN << Some(pattern), Some(status), Some(result), FALSE >>
    ELSE << cur_email, cur_status, cur_result, FALSE >>

\* Decide that does not consult INCLUDE_RISKY.
Decide_ignores_flag(pattern, status, result, include_risky, cur_email, cur_status, cur_result) ==
    IF status = "safe"
    THEN << Some(pattern), Some(status), Some(result), TRUE >>
    ELSE IF status = "risky" /\ cur_status # Some("safe")
    THEN << Some(pattern), Some(status), Some(result), FALSE >>
    ELSE << cur_email, cur_status, cur_result, FALSE >>

\* Decide that stores every result that was not skipped (else instead of elif).
Decide_store_any(pattern, status, result, include_risky, cur_email, cur_status, cur_result) ==
    IF status = "safe"
    THEN << Some(pattern), Some(status), Some(result), TRUE >>
    ELSE IF cur_status # Some("safe") /\ include_risky
    THEN << Some(pattern), Some(status), Some(result), FALSE >>
    ELSE << cur_email, cur_status, cur_result, FALSE >>

\* The decision of lines 307-325 on a result that was not skipped:
\* << best_email, best_status, best_result, break >> after it.
Decide(pattern, status, result, include_risky, cur_email, cur_status, cur_result) ==
    IF status = "safe"
    THEN << Some(pattern), Some(status), Some(result), TRUE >>
    ELSE IF status = "risky" /\ cur_status # Some("safe") /\ include_risky
    THEN << Some(pattern), Some(status), Some(result), FALSE >>
    ELSE << cur_email, cur_status, cur_result, FALSE >>

\* The skip test with "and" for "or".
IsSkipped_and(status, is_reachable_smtp) == status = "invalid" /\ ~is_reachable_smtp

\* Line 301: the result is skipped as invalid.
IsSkipped(status, is_reachable_smtp) == status = "invalid" \/ ~is_reachable_smtp

\* The candidate taken from the list back to front.
NextPattern_reversed(patterns, idx) == patterns[Len(patterns) + 1 - idx]

\* Line 282: the candidate of iteration idx of enumerate(unique_patterns, 1).
NextPattern(patterns, idx) == patterns[idx]

\* The hit counter incremented for every candidate.
CountHit_always(validated, is_reachable_smtp) == validated + 1

\* Lines 297-298: patterns_validated after a result.
CountHit(validated, is_reachable_smtp) ==
    IF is_reachable_smtp THEN validated + 1 ELSE validated

\* The delay taken after the last candidate too.
SleepsAfter_trailing(idx, total, stop) == ~stop

\* Lines 303-304 and 328-329: time.sleep runs unless the loop broke or this
\* was the last candidate.
SleepsAfter(idx, total, stop) == ~stop /\ idx < total

\* Lines 282-329: one iteration of the search loop, the oracle call included.
ValidateStep(outcome) ==
    /\ pc = "loop"
    /\ LET idx == pattern_idx + 1
           pattern == NextPattern(unique_patterns, idx)
           result == WithEmail(validate_email(outcome), pattern)
           status == Get(result, "is_reachable", "invalid")
           smtp_data == Get(result, "smtp", EmptyDict)
           last == idx = Len(unique_patterns)
           call == [kind |-> "call", email |-> pattern, outcome |-> outcome,
                    result |-> result]
           sleep == [kind |-> "sleep"]
       IN  /\ pattern_idx' = idx
           /\ patterns_tested' = idx
           /\ IF smtp_data = JsonNull
              THEN \* None.get(...): AttributeError leaves _validate_leads
                   /\ pc' = "raised"
                   /\ raised' = Some("AttributeError")
                   /\ log' = Append(log, call)
                   /\ last_event' = "call"
                   /\ UNCHANGED << patterns_validated, best_email, best_status,
                                   best_result >>
              ELSE LET is_reachable_smtp == Get(smtp_data, "is_deliverable", FALSE)
                       skip == IsSkipped(status, is_reachable_smtp)
                       d == Decide(pattern, status, result, INCLUDE_RISKY,
                                   best_email, best_status, best_result)
                       stop == ~skip /\ d[4]
                       sleeps == SleepsAfter(idx, Len(unique_patterns), stop)
                   IN  /\ patterns_validated' = CountHit(patterns_validated, is_reachable_smtp)
                       /\ best_email' = IF skip THEN best_email ELSE d[1]
                       /\ best_status' = IF skip THEN best_status ELSE d[2]
                       /\ best_result' = IF skip THEN best_result ELSE d[3]
                       /\ log' = IF sleeps THEN Append(Append(log, call), sleep)
                                 ELSE Append(log, call)
                       /\ last_event' = IF sleeps THEN "sleep" ELSE "call"
                       /\ pc' = IF stop \/ last THEN "record" ELSE "loop"
                       /\ UNCHANGED raised
    /\ UNCHANGED << config_vars, linkedin_vars, leads, lead_pos, first_name, last_name, domain,
                    unique_patterns, validated_records, input_file, exported, fn_vars >>

\* best_result.get(block, {}).get(key, default), which raises on a null block
BlockIsNull(result, block) == Get(result, block, EmptyDict) = JsonNull

\* Lines 331-363: the record of the lead, from the search state.
BuildRecord(first, last, dom, email, status, result, tested, validated) ==
    [ first_name |-> first,
      last_name |-> last,
      company_domain |-> dom,
      validated_email |-> OrElse(email, << >>),
      validation_status |-> IF status = None THEN "none_found" ELSE status[1],
      is_reachable |-> IF result # None THEN Get(result[1], "is_reachable", "") ELSE "",
      is_reachable_smtp |->
          IF result # None
          THEN Get(Get(result[1], "smtp", EmptyDict), "is_deliverable", FALSE)
          ELSE FALSE,
      is_disposable |->
          IF result # None
          THEN Get(Get(result[1], "misc", EmptyDict), "is_disposable", FALSE)
          ELSE FALSE,
      is_role_account |->
          IF result # None
          THEN Get(Get(result[1], "misc", EmptyDict), "is_role_account", FALSE)
          ELSE FALSE,
      mx_records |->
          IF result # None
             /\ Get(Get(result[1], "mx", EmptyDict), "records", << >>) # << >>
          THEN Join(<< ",", " " >>, Get(Get(result[1], "mx", EmptyDict), "records", << >>))
          ELSE << >>,
      patterns_tested |-> tested,
      patterns_validated |-> validated ]

\* Lines 331-377: build the record and append it; a null smtp, misc or mx block
\* of best_result raises AttributeError instead.
AppendRecord ==
    /\ pc = "record"
    /\ IF best_result # None
          /\ \E block \in {"smtp", "misc", "mx"} : BlockIsNull(best_result[1], block)
       THEN /\ pc' = "raised"
            /\ raised' = Some("AttributeError")
            /\ UNCHANGED validated_records
       ELSE /\ validated_records' = Append(validated_records,
                   BuildRecord(first_name, last_name, domain, best_email, best_status,
                               best_result, patterns_tested, patterns_validated))
            /\ pc' = "next_lead"
            /\ UNCHANGED raised
    /\ UNCHANGED << config_vars, linkedin_vars, leads, lead_pos, lead_vars, input_file, exported,
                    last_event, fn_vars >>

\* Lines 209 and 381-407: the records are written to the output file.
ExportCsv ==
    /\ pc = "done"
    /\ exported' = TRUE
    /\ pc' = "exported"
    /\ UNCHANGED << config_vars, linkedin_vars, leads, lead_pos, lead_vars, validated_records,
                    input_file, raised, last_event, fn_vars >>

\* Rows for the run over whole leads files: a plain row, a row whose first
\* name is blank, a row whose first_name cell is empty, and a hyphenated row.
RowSpecLeadRows ==
    { [first_name |-> Some(<< "a" >>), last_name |-> Some(<< "B" >>),
       company_domain |-> Some(<< "d" >>)],
      [first_name |-> Some(<< " " >>), last_name |-> Some(<< "B" >>),
       company_domain |-> Some(<< "d" >>)],
      [first_name |-> None, last_name |-> Some(<< "B" >>),
       company_domain |-> Some(<< "d" >>)],
      [first_name |-> Some(<< "a", "-" >>), last_name |-> Some(<< "B" >>),
       company_domain |-> Some(<< "d" >>)] }

RowSpecMaxPatternsChoices == {1, DEFAULT_MAX_PATTERNS_PER_LEAD}

\* The transport failure and the safe, deliverable response.
RowSpecOutcomes ==
    { o \in OracleOutcomes :
        \/ o.kind = "error"
        \/ o.kind = "json" /\ o.body = [is_reachable |-> "safe",
               smtp |-> [is_deliverable |-> TRUE], misc |-> FullMisc, mx |-> FullMx] }

InitRows == InitPipeline(InputFiles(RowSpecLeadRows), RowSpecMaxPatternsChoices, {FALSE})

NextRows ==
    \/ LoadLeads
    \/ NextLead
    \/ \E outcome \in RowSpecOutcomes : ValidateStep(outcome)
    \/ AppendRecord
    \/ ExportCsv

SpecRows == InitRows /\ [][NextRows]_vars

Next ==
    \/ LoadLeads
    \/ NextLead
    \/ \E outcome \in OracleOutcomes : ValidateStep(outcome)
    \/ AppendRecord
    \/ ExportCsv

Spec == Init /\ [][Next]_vars

\* ------------------------------------------- properties of the search loop

IsCall(e) == e.kind = "call"

\* The oracle calls made for the current lead, in order.
Calls == SelectSeq(log, IsCall)

HasStatus(r, s) == "is_reachable" \in DOMAIN r /\ r.is_reachable = s

Deliverable(r) ==
    /\ "smtp" \in DOMAIN r
    /\ r.smtp # JsonNull
    /\ "is_deliverable" \in DOMAIN r.smtp
    /\ r.smtp.is_deliverable = TRUE

SafeDeliverable(r) == HasStatus(r, "safe") /\ Deliverable(r)
RiskyDeliverable(r) == HasStatus(r, "risky") /\ Deliverable(r)

SafeIdx == { i \in 1..Len(Calls) : SafeDeliverable(Calls[i].result) }
RiskyIdx == { i \in 1..Len(Calls) : RiskyDeliverable(Calls[i].result) }
DeliverableIdx == { i \in 1..Len(Calls) : Deliverable(Calls[i].result) }

SetMin(S) == CHOOSE x \in S : \A y \in S : x <= y
SetMax(S) == CHOOSE x \in S : \A y \in S : x >= y

\* The record of the lead whose calls the log holds has been appended.
RecordBuilt == pc \in {"next_lead", "done", "exported"} /\ validated_records # << >>
LastRecord == validated_records[Len(validated_records)]

\* C1: the i-th oracle call is for the i-th candidate, and a call whose result
\* is safe and deliverable is the last one made: the loop has ended, that
\* candidate is best_candidate and patterns_tested is its position.
C1_StopsAtFirstSafe ==
    \A i \in 1..Len(Calls) :
        /\ Calls[i].email = unique_patterns[i]
        /\ SafeDeliverable(Calls[i].result) =>
              /\ i = Len(Calls)
              /\ pc # "loop"
              /\ best_email = Some(unique_patterns[i])
              /\ patterns_tested = i

\* A risky best was held, then the second of three candidates came back safe.
C1_Witness ==
    /\ INCLUDE_RISKY
    /\ Len(unique_patterns) = 3
    /\ Len(Calls) = 2
    /\ RiskyDeliverable(Calls[1].result)
    /\ SafeDeliverable(Calls[2].result)
    /\ pc = "record"
    /\ best_email = Some(unique_patterns[2])
    /\ patterns_tested = 2

C3_HitsAreRiskyCount ==
    ~INCLUDE_RISKY =>
        /\ best_status \in {None, Some("safe")}
        /\ (RecordBuilt /\ SafeIdx = {}) =>
              /\ best_email = None
              /\ LastRecord.validated_email = << >>
              /\ LastRecord.validation_status = "none_found"
              /\ LastRecord.patterns_validated = Cardinality(RiskyIdx)

\* C3 amended: the same, with patterns_validated equal to the number of
\* deliverable results of any reachability.
C3_RiskyNeverStored ==
    ~INCLUDE_RISKY =>
        /\ best_status \in {None, Some("safe")}
        /\ best_email # None =>
              \E i \in SafeIdx : Calls[i].email = best_email[1]
        /\ (RecordBuilt /\ SafeIdx = {}) =>
              /\ best_email = None
              /\ LastRecord.validated_email = << >>
              /\ LastRecord.validation_status = "none_found"
              /\ LastRecord.patterns_validated = Cardinality(DeliverableIdx)

\* An all-risky list of three, every candidate deliverable.
C3_Witness ==
    /\ ~INCLUDE_RISKY
    /\ RecordBuilt
    /\ Cardinality(RiskyIdx) = 3
    /\ LastRecord.validation_status = "none_found"
    /\ LastRecord.patterns_validated = 3

\* C4: a step whose oracle call failed in transport counts the candidate as
\* tested, leaves patterns_validated and the best alone, and goes on to the
\* next candidate (or ends the loop normally after the last one).
C4_TransportFailureNeverAborts ==
    [][ ( /\ pc = "loop"
          /\ pattern_idx' = pattern_idx + 1
          /\ log'[Len(log) + 1].outcome.kind = "error" )
        => /\ patterns_tested' = patterns_tested + 1
           /\ patterns_validated' = patterns_validated
           /\ best_email' = best_email
           /\ best_status' = best_status
           /\ best_result' = best_result
           /\ pc' = IF pattern_idx' < Len(unique_patterns) THEN "loop" ELSE "record"
      ]_vars

\* The first call failed in transport and the second candidate was found.
C4_Witness ==
    /\ Len(Calls) = 2
    /\ Calls[1].outcome.kind = "error"
    /\ patterns_tested = 2
    /\ patterns_validated = 1
    /\ best_email = Some(Calls[2].email)

\* C5: a held best_result is deliverable, not invalid, and is the result of the
\* call made for best_candidate; so is the record's.
C5_BestIsValidHit ==
    /\ (best_result = None) <=> (best_email = None)
    /\ best_result # None =>
          /\ Deliverable(best_result[1])
          /\ "is_reachable" \in DOMAIN best_result[1]
          /\ best_result[1].is_reachable # "invalid"
          /\ \E i \in 1..Len(Calls) :
                /\ Calls[i].email = best_email[1]
                /\ Calls[i].result = best_result[1]
    /\ (RecordBuilt /\ LastRecord.validated_email # << >>) =>
          /\ LastRecord.validated_email = best_email[1]
          /\ LastRecord.is_reachable_smtp = TRUE
          /\ LastRecord.is_reachable \notin {"invalid", ""}

\* A risky best is held while the loop goes on.
C5_Witness ==
    /\ pc = "loop"
    /\ best_result # None
    /\ HasStatus(best_result[1], "risky")
    /\ Len(Calls) = 2

\* C6: the record's validation_status is none_found exactly when no best is
\* held (and validated_email is then empty), else the reachability of
\* best_result; it is one of none_found, safe, risky in every record.
C6_StatusMapping ==
    /\ RecordBuilt =>
          /\ (LastRecord.validation_status = "none_found") <=> (best_result = None)
          /\ (LastRecord.validation_status = "none_found") <=> (best_email = None)
          /\ best_result # None =>
                HasStatus(best_result[1], LastRecord.validation_status)
    /\ \A k \in 1..Len(validated_records) :
          /\ validated_records[k].validation_status \in {"none_found", "safe", "risky"}
          /\ (validated_records[k].validation_status = "none_found")
                <=> (validated_records[k].validated_email = << >>)

\* A deliverable result of reachability "unknown" was seen and none was kept.
C6_Witness ==
    /\ RecordBuilt
    /\ LastRecord.validation_status = "none_found"
    /\ \E i \in DeliverableIdx : HasStatus(Calls[i].result, "unknown")

\* ------------------------------- properties of generate_email_patterns

PatternsReturned == fn = "generate_email_patterns"

\* first and last as the function normalises them.
NormFirst == Strip(Lower(fn_first))
NormLast == Strip(Lower(fn_last))

\* The arguments pass the guard of line 103.
PatternsApply == Truthy(NormFirst) /\ Truthy(NormLast) /\ Truthy(fn_domain)

\* The local parts in priority order: first, first.last, firstlast, f.last,
\* flast, first_last, first-last, first.l, last.first.
PriorityLocals(f, l) ==
    << f,
       f \o << "." >> \o l,
       f \o l,
       << f[1], "." >> \o l,
       << f[1] >> \o l,
       f \o << "_" >> \o l,
       f \o << "-" >> \o l,
       f \o << ".", l[1] >>,
       l \o << "." >> \o f >>

PriorityAddresses ==
    [i \in DOMAIN PriorityLocals(NormFirst, NormLast) |->
        PriorityLocals(NormFirst, NormLast)[i] \o << "@" >> \o fn_domain]

\* The entries of seq from position i on that repeat no earlier entry, in place.
RECURSIVE FirstOccurrences(_, _)
FirstOccurrences(seq, i) ==
    IF i > Len(seq) THEN << >>
    ELSE (IF \E j \in 1..(i - 1) : seq[j] = seq[i] THEN << >> ELSE << seq[i] >>)
         \o FirstOccurrences(seq, i + 1)

Range(seq) == { seq[i] : i \in DOMAIN seq }

\* C7 as stated: the output is the nine addresses in priority order with later
\* duplicates removed.
C7_PriorityOrder ==
    (PatternsReturned /\ PatternsApply)
        => fn_ret[1] = FirstOccurrences(PriorityAddresses, 1)

\* C7 amended: the output is the first MAX_PATTERNS_PER_LEAD entries of the nine
\* addresses in priority order with later duplicates removed.
C7_PriorityOrderCapped ==
    (PatternsReturned /\ PatternsApply) =>
        LET kept == FirstOccurrences(PriorityAddresses, 1)
            ret == fn_ret[1]
        IN  /\ Len(ret) = Min(MAX_PATTERNS_PER_LEAD, Len(kept))
            /\ \A i \in DOMAIN ret : ret[i] = kept[i]

\* Normalised names, a duplicate removed, nothing cut at the default cap.
C7_Witness ==
    /\ PatternsReturned
    /\ PatternsApply
    /\ MAX_PATTERNS_PER_LEAD = DEFAULT_MAX_PATTERNS_PER_LEAD
    /\ fn_first # NormFirst
    /\ fn_last # NormLast
    /\ Len(fn_ret[1]) = Len(PriorityAddresses) - 1

\* C8: at most MAX_PATTERNS_PER_LEAD entries, pairwise distinct, each a
\* non-empty local part, "@" and the domain given.
C8_CappedDistinctWellFormed ==
    (PatternsReturned /\ (Truthy(fn_first) \/ Truthy(fn_last) \/ Truthy(fn_domain))) =>
        LET ret == fn_ret[1]
        IN  /\ Len(ret) <= MAX_PATTERNS_PER_LEAD
            /\ \A i, j \in DOMAIN ret : i # j => ret[i] # ret[j]
            /\ \A i \in DOMAIN ret :
                  \E k \in 2..Len(ret[i]) :
                      /\ ret[i][k] = "@"
                      /\ SubSeq(ret[i], k + 1, Len(ret[i])) = fn_domain

\* Nine distinct addresses were generated and the cap cut them.
C8_Witness ==
    /\ PatternsReturned
    /\ PatternsApply
    /\ Len(FirstOccurrences(PriorityAddresses, 1)) = Len(PriorityAddresses)
    /\ Len(fn_ret[1]) = MAX_PATTERNS_PER_LEAD
    /\ Len(fn_ret[1]) > 1

\* C9: the list is empty exactly when first, last or domain is empty after
\* trimming whitespace.
C9_EmptyIffBlankField ==
    PatternsReturned =>
        ( (fn_ret[1] = << >>)
          <=> ( \/ Strip(fn_first) = << >>
                \/ Strip(fn_last) = << >>
                \/ Strip(fn_domain) = << >> ) )

\* ---------------------------------- properties of generate_name_variants

VariantsReturned == fn = "generate_name_variants"

\* The variants in generation order: base, hyphen-stripped,
\* hyphen-first-segment, accent-folded.
GeneratedVariants ==
    << << fn_first, fn_last >>,
       << RemoveHyphens(fn_first), fn_last >>,
       << BeforeFirstHyphen(fn_first), fn_last >>,
       << AsciiFold(fn_first), AsciiFold(fn_last) >> >>

LoopEnded == pc \in {"record", "next_lead", "done", "exported", "raised"}

\* C11: in one lead's search the oracle calls and the delays alternate,
\* starting with a call, so exactly one delay lies between two consecutive
\* calls; while the loop runs the latest call is followed by its delay, and
\* once the loop has ended (last candidate, or safe stop) no delay follows the
\* last call.
C11_OneDelayBetweenCalls ==
    /\ \A i \in 1..(Len(log) - 1) : log[i].kind # log[i + 1].kind
    /\ log # << >> => log[1].kind = "call"
    /\ (log # << >> /\ pc = "loop") => log[Len(log)].kind = "sleep"
    /\ (log # << >> /\ LoopEnded) => log[Len(log)].kind = "call"

\* A rejected, a risky and an unrecognised result in one search that tested
\* every candidate.
C11_Witness ==
    /\ pc = "record"
    /\ Len(log) = 5
    /\ Len(Calls) = 3
    /\ HasStatus(Calls[1].result, "invalid")
    /\ RiskyDeliverable(Calls[2].result)
    /\ HasStatus(Calls[3].result, "unknown")

\* A safe stop before the last candidate, with no delay after it.
C11_WitnessSafeStop ==
    /\ pc = "record"
    /\ Len(Calls) = 2
    /\ Len(unique_patterns) = 3
    /\ SafeDeliverable(Calls[2].result)

FileMissing == input_file = None
ColumnsMissing == input_file # None /\ RequiredCols \ input_file[1].columns # {}

\* C13: with the input file missing or a required column missing, the run
\* gets no further than _load_leads: it ends with FileNotFoundError or
\* ValueError, and no oracle call, no delay, no record and no output file
\* ever exist.
C13_BadInputAbortsBeforeAnyCall ==
    (FileMissing \/ ColumnsMissing) =>
        /\ pc \in {"load_leads", "raised"}
        /\ pc = "raised" =>
               raised = (IF FileMissing THEN Some("FileNotFoundError")
                         ELSE Some("ValueError"))
        /\ last_event = "none"
        /\ log = << >>
        /\ validated_records = << >>
        /\ ~exported

\* A file with a row but without one of the required columns has aborted.
C13_Witness ==
    /\ ColumnsMissing
    /\ input_file[1].rows # << >>
    /\ pc = "raised"
    /\ raised = Some("ValueError")

\* The missing file has aborted the run.
C13_WitnessNoFile == FileMissing /\ pc = "raised" /\ raised = Some("FileNotFoundError")

\* C14 as stated: a lead's loop, once it has made a call and ended, ended
\* because a safe and deliverable result was found or because every candidate
\* was tested; no candidate was called twice, and without a safe and
\* deliverable result patterns_tested is the length of the list.
C14_EndsOnlyOnSafeOrExhausted ==
    (LoopEnded /\ log # << >>) =>
        /\ SafeIdx # {} \/ Len(Calls) = Len(unique_patterns)
        /\ SafeIdx = {} => patterns_tested = Len(unique_patterns)
        /\ \A i, j \in 1..Len(Calls) : i # j => Calls[i].email # Calls[j].email

\* C16 as stated: no exception leaves the per-lead search or the building of
\* its record; the only exceptions of a run are those of _load_leads.
C16_SearchCannotFail ==
    pc = "raised" => raised \in {Some("FileNotFoundError"), Some("ValueError")}

LoopEndedNormally == pc \in {"record", "next_lead", "done", "exported"}

CalledAddresses == [i \in 1..Len(Calls) |-> Calls[i].email]

\* C17: the addresses passed to the oracle for a lead are, in order, the first
\* patterns_tested entries of its merged candidate list, whatever the earlier
\* results were.
C17_CallsArePrefixOfCandidates ==
    /\ Len(Calls) <= Len(unique_patterns)
    /\ CalledAddresses = SubSeq(unique_patterns, 1, Len(Calls))
    /\ patterns_tested = Len(Calls)

\* Two calls made of three candidates, the first answered risky and stored, the
\* second rejected.
C17_Witness ==
    /\ pc = "loop"
    /\ Len(unique_patterns) = 3
    /\ Len(Calls) = 2
    /\ RiskyDeliverable(Calls[1].result)
    /\ best_email = Some(unique_patterns[1])
    /\ ~Deliverable(Calls[2].result)

\* The counters of the current lead agree with the calls made for it.
CountersInv ==
    /\ patterns_validated = Cardinality(DeliverableIdx)
    /\ patterns_tested = Len(Calls)
    /\ 0 <= patterns_validated
    /\ patterns_validated <= patterns_tested
    /\ patterns_tested <= Len(unique_patterns)

\* A step that begins the search of a lead.
SearchStarts == pc = "next_lead" /\ pc' = "loop"

\* A search begins with both counters at 0, and no other step lowers either.
CountersStep ==
    IF SearchStarts
    THEN patterns_tested' = 0 /\ patterns_validated' = 0
    ELSE patterns_tested' >= patterns_tested /\ patterns_validated' >= patterns_validated

\* C19: in every state patterns_validated is the number of candidates called
\* so far whose result has smtp.is_deliverable true, whatever their
\* is_reachable and whether or not they were stored, and
\* 0 <= patterns_validated <= patterns_tested <= len(unique_patterns); both
\* counters are 0 when a search begins and never decrease during it.
C19_CountersCountDeliverable == []CountersInv /\ [][CountersStep]_vars

\* Three candidates tested, two of them deliverable, one of these with status
\* invalid, and nothing stored.
C19_Witness ==
    /\ Len(Calls) = 3
    /\ DeliverableIdx = {1, 3}
    /\ HasStatus(Calls[1].result, "invalid")
    /\ best_email = None
    /\ patterns_validated = 2

\* A step of the search loop: it calls the oracle for the next candidate.
OracleCallStep == pc = "loop" /\ pattern_idx' # pattern_idx

\* C20 as stated: over the whole run a delay separates any two consecutive
\* oracle calls, so no call is made while the run's latest call has not been
\* followed by a delay, the last call of one lead and the first call of the
\* next lead included.
C20_DelayBetweenAnyTwoCalls == [][OracleCallStep => last_event # "call"]_vars

\* ------------------------------------------- properties of whole leads files

\* The row has a required cell that is empty, or blank once trimmed.
LacksField(row) ==
    \E c \in RequiredCols :
        \/ LeadGet(row, c) = None
        \/ Strip(LeadGet(row, c)[1]) = << >>

HasAllFields(row) == ~LacksField(row)

\* The trimmed required fields of a row that has them all.
RowKey(row) ==
    << Strip(row.first_name[1]), Strip(row.last_name[1]), Strip(row.company_domain[1]) >>

RecordKey(rec) == << rec.first_name, rec.last_name, rec.company_domain >>

\* C12 as stated: the search loop never runs for a row that lacks a required
\* field (empty cell, or empty after trimming), and when all rows have been
\* handled the records are those of the rows that have all their fields, one
\* each, in input order.
C12_RowsLackingFieldSkipped ==
    /\ pc \in {"loop", "record"} => HasAllFields(leads[lead_pos])
    /\ pc \in {"done", "exported"} =>
           LET kept == SelectSeq(leads, HasAllFields)
           IN  /\ Len(validated_records) = Len(kept)
               /\ \A i \in 1..Len(kept) : RecordKey(validated_records[i]) = RowKey(kept[i])

\* generate_email_patterns of the name variants from the i-th on, one after
\* the other.
RECURSIVE PatternsOfVariants(_, _, _, _)
PatternsOfVariants(name_variants, dom, cap, i) ==
    IF i > Len(name_variants) THEN << >>
    ELSE generate_email_patterns(name_variants[i][1], name_variants[i][2], dom, cap)
         \o PatternsOfVariants(name_variants, dom, cap, i + 1)

\* The search of a lead is under way or has just ended.
LeadActive == pc \in {"loop", "record"}

\* C18: the merged candidate list of a lead is the concatenation of
\* generate_email_patterns over its name variants, in the order of the
\* variants, with every repetition of an address after its first occurrence
\* removed; no address occurs twice in the list and none is passed to the
\* oracle twice for the lead.
C18_MergedListIsDedupedConcatenation ==
    LeadActive =>
        /\ unique_patterns =
               FirstOccurrences(
                   PatternsOfVariants(generate_name_variants(first_name, last_name),
                                      domain, MAX_PATTERNS_PER_LEAD, 1), 1)
        /\ \A i, j \in 1..Len(unique_patterns) :
               i # j => unique_patterns[i] # unique_patterns[j]
        /\ \A i, j \in 1..Len(Calls) : i # j => Calls[i].email # Calls[j].email

\* The hyphenated lead at the default cap: two name variants whose pattern
\* lists share addresses, merged into 11 candidates, all of them called.
C18_Witness ==
    /\ pc = "record"
    /\ first_name = << "a", "-" >>
    /\ Len(generate_name_variants(first_name, last_name)) = 2
    /\ Len(PatternsOfVariants(generate_name_variants(first_name, last_name),
                              domain, MAX_PATTERNS_PER_LEAD, 1)) > 11
    /\ Len(unique_patterns) = 11
    /\ Len(Calls) = 11

\* C21 as stated: the merged candidate list of a lead, and with it
\* patterns_tested, never has more than MAX_PATTERNS_PER_LEAD entries, also
\* for a lead with several name variants.
C21_MergedListWithinCap ==
    LeadActive =>
        /\ Len(unique_patterns) <= MAX_PATTERNS_PER_LEAD
        /\ patterns_tested <= MAX_PATTERNS_PER_LEAD

\* ------------------------- edge cases of generate_name_variants

EmptyNameGiven == fn_first = << >> \/ fn_last = << >>

\* C23 as stated: with an empty first or an empty last the result is the
\* input pair alone, whatever the other argument is.
C23_EmptyFieldSingleVariant ==
    (VariantsReturned /\ EmptyNameGiven) => fn_ret[1] = << << fn_first, fn_last >> >>

\* C23, amended: with an empty first or an empty last the result starts with
\* the input pair and every variant keeps the empty field empty; it is the
\* input pair alone exactly when first has no hyphen and accent folding
\* changes neither argument.
C23_EmptyFieldKeptEmpty ==
    (VariantsReturned /\ EmptyNameGiven) =>
        LET ret == fn_ret[1]
        IN  /\ ret[1] = << fn_first, fn_last >>
            /\ \A i \in DOMAIN ret :
                   /\ fn_first = << >> => ret[i][1] = << >>
                   /\ fn_last = << >> => ret[i][2] = << >>
            /\ Len(ret) = 1 <=>
                   /\ "-" \notin Range(fn_first)
                   /\ AsciiFold(fn_first) = fn_first
                   /\ AsciiFold(fn_last) = fn_last

\* An empty last with a hyphenated first: three variants returned.
C23_Witness ==
    /\ VariantsReturned
    /\ fn_last = << >>
    /\ "-" \in Range(fn_first)
    /\ Len(fn_ret[1]) = 3

\* An empty first with an accented last: two variants returned.
C23_WitnessAccent ==
    /\ VariantsReturned
    /\ fn_first = << >>
    /\ Len(fn_ret[1]) = 2

AllAscii(s) == \A i \in 1..Len(s) : ~NonAscii(s[i])

\* C24: for all-ASCII first+last the result has at most 3 variants, each with
\* last unchanged, and exactly 1 when first has no hyphen; when first+last has
\* a non-ASCII character the pair with the combining marks removed from both
\* is in the result.
C24_FoldedOnlyWhenNonAscii ==
    VariantsReturned =>
        LET ret == fn_ret[1]
        IN  IF AllAscii(fn_first \o fn_last)
            THEN /\ Len(ret) <= 3
                 /\ \A i \in DOMAIN ret : ret[i][2] = fn_last
                 /\ "-" \notin Range(fn_first) => Len(ret) = 1
            ELSE << AsciiFold(fn_first), AsciiFold(fn_last) >> \in Range(ret)

\* An accented first and last: the folded pair differs from the input in both
\* and is returned after it.
C24_Witness ==
    /\ VariantsReturned
    /\ AsciiFold(fn_first) # fn_first
    /\ AsciiFold(fn_last) # fn_last
    /\ fn_ret[1][Len(fn_ret[1])] = << AsciiFold(fn_first), AsciiFold(fn_last) >>

\* A hyphenated all-ASCII first: three variants, none folded.
C24_WitnessAscii ==
    /\ VariantsReturned
    /\ AllAscii(fn_first \o fn_last)
    /\ Len(fn_ret[1]) = 3

\* ------------------------------------------- independence of the leads

\* The three fields of a row as lines 238-240 read them.
OwnFields(row) ==
    << Strip(CellStr(LeadGet(row, "first_name"))),
       Strip(CellStr(LeadGet(row, "last_name"))),
       Strip(CellStr(LeadGet(row, "company_domain"))) >>

\* Line 242 on a row.
RowSkipped(row) == \E i \in 1..3 : ~Truthy(OwnFields(row)[i])

\* The search state of lines 276-280.
FreshSearch ==
    [best_email |-> None, best_status |-> None, best_result |-> None,
     patterns_tested |-> 0, patterns_validated |-> 0]

\* The search of one lead run from FreshSearch on the oracle outcomes given for
\* its candidates, from the i-th on: the state after the last of them.
RECURSIVE SearchFrom(_, _, _, _, _)
SearchFrom(patterns, outcomes, include_risky, i, st) ==
    IF i > Len(outcomes) THEN st
    ELSE LET result == WithEmail(validate_email(outcomes[i]), patterns[i])
             status == Get(result, "is_reachable", "invalid")
             smtp_data == Get(result, "smtp", EmptyDict)
         IN  IF smtp_data = JsonNull
             THEN [st EXCEPT !.patterns_tested = i]
             ELSE LET is_reachable_smtp == Get(smtp_data, "is_deliverable", FALSE)
                      d == Decide(patterns[i], status, result, include_risky,
                                  st.best_email, st.best_status, st.best_result)
                      keep == IsSkipped(status, is_reachable_smtp)
                      next == [best_email |-> IF keep THEN st.best_email ELSE d[1],
                               best_status |-> IF keep THEN st.best_status ELSE d[2],
                               best_result |-> IF keep THEN st.best_result ELSE d[3],
                               patterns_tested |-> i,
                               patterns_validated |->
                                   CountHit(st.patterns_validated, is_reachable_smtp)]
                  IN  SearchFrom(patterns, outcomes, include_risky, i + 1, next)

\* The outcomes the oracle gave for the current lead's candidates, in order.
OwnOutcomes == [i \in 1..Len(Calls) |-> Calls[i].outcome]

\* The outcome of the current lead as its own row, the configuration and the
\* oracle's answers to its own candidates determine it.
OwnOutcome ==
    LET own == OwnFields(leads[lead_pos])
    IN  SearchFrom(MergedPatterns(own[1], own[2], own[3], MAX_PATTERNS_PER_LEAD),
                   OwnOutcomes, INCLUDE_RISKY, 1, FreshSearch)

SearchState ==
    [best_email |-> best_email, best_status |-> best_status,
     best_result |-> best_result, patterns_tested |-> patterns_tested,
     patterns_validated |-> patterns_validated]

\* The current lead was not skipped and its record is the last one appended.
OwnRecordAppended ==
    /\ pc = "next_lead"
    /\ lead_pos >= 1
    /\ ~RowSkipped(leads[lead_pos])

\* C22: the best held and the counters of a lead are, in every state of its
\* search, what a search started from nothing gives on the lead's own fields
\* and the oracle's answers to its own candidates, and its record is built
\* from these alone: the rows before it, the answers given for them and the
\* values they left behind have no part in it.
C22_LeadOutcomeIndependent ==
    /\ LeadActive =>
           /\ unique_patterns = MergedPatterns(OwnFields(leads[lead_pos])[1],
                  OwnFields(leads[lead_pos])[2], OwnFields(leads[lead_pos])[3],
                  MAX_PATTERNS_PER_LEAD)
           /\ SearchState = OwnOutcome
           /\ log = << >> => SearchState = FreshSearch
    /\ OwnRecordAppended =>
           LastRecord = BuildRecord(OwnFields(leads[lead_pos])[1],
                            OwnFields(leads[lead_pos])[2], OwnFields(leads[lead_pos])[3],
                            OwnOutcome.best_email, OwnOutcome.best_status,
                            OwnOutcome.best_result, OwnOutcome.patterns_tested,
                            OwnOutcome.patterns_validated)

\* A lead with a safe address followed by a lead for which every call failed:
\* the second record holds no address and counts its own candidates only.
C22_Witness ==
    /\ OwnRecordAppended
    /\ Len(validated_records) = 2
    /\ validated_records[1].validation_status = "safe"
    /\ validated_records[1].patterns_validated = 1
    /\ validated_records[2].validation_status = "none_found"
    /\ validated_records[2].validated_email = << >>
    /\ validated_records[2].patterns_validated = 0
    /\ validated_records[2].patterns_tested = Len(unique_patterns)

\* ------------------------------------------------- OpenOutreachClient

MaxPollInterval == 2
MaxPollTimeout == 2
MaxGetRunTicks == 1

\* What one get_run call can do: raise RequestException, or return a run body
\* (without a status, running, completed, failed).
GetRunResponses ==
    { [kind |-> "error"],
      [kind |-> "json", body |-> [result |-> "r"]],
      [kind |-> "json", body |-> [status |-> "running"]],
      [kind |-> "json", body |-> [status |-> "completed", result |-> "r"]],
      [kind |-> "json", body |-> [status |-> "failed", error |-> "boom"]] }

\* The run the API was asked about, in the body it answers with.
WithRunId(body, run_id) ==
    [k \in DOMAIN body \cup {"run_id"} |-> IF k = "run_id" THEN run_id ELSE body[k]]

\* Every status ends the polling.
IsTerminal_any(status) == TRUE

\* Line 153: status in ["completed", "failed"]
IsTerminal(status) == status \in {Some("completed"), Some("failed")}

\* Line 140: elapsed > timeout
TimedOut(elapsed, timeout) == elapsed > timeout

\* Lines 134-135: poll_run_until_complete(run_id) starts.
PollStarted(run_id) ==
    /\ poll_pc' = "check"
    /\ poll_run_id' = Some(run_id)
    /\ poll_clock' = 0
    /\ poll_log' = << >>
    /\ poll_ret' = None
    /\ poll_exc' = None

\* Lines 138-141: the elapsed time is read and compared with the timeout.
PollCheck ==
    /\ poll_pc = "check"
    /\ poll_log' = Append(poll_log, [kind |-> "check", elapsed |-> poll_clock])
    /\ IF TimedOut(poll_clock, RUN_POLL_TIMEOUT_S)
       THEN /\ poll_pc' = "raised"
            /\ poll_exc' = Some("TimeoutError")
       ELSE /\ poll_pc' = "get"
            /\ UNCHANGED poll_exc
    /\ UNCHANGED << poll_run_id, poll_clock, poll_ret >>
    /\ UNCHANGED << config_vars, pipeline_vars, fn_vars, RUN_POLL_INTERVAL_S,
                    RUN_POLL_TIMEOUT_S, li_pc, li_input_file, leads_df, li_idx,
                    li_lead_vars, results, runs_created, li_raised, li_exported >>

\* Lines 143-154: get_run, which takes ticks of time, and the test of the
\* status it returned; its RequestException leaves the function.
PollGetRun(response, ticks) ==
    /\ poll_pc = "get"
    /\ poll_clock' = poll_clock + ticks
    /\ IF response.kind = "error"
       THEN /\ poll_pc' = "raised"
            /\ poll_exc' = Some("RequestException")
            /\ poll_log' = Append(poll_log, [kind |-> "get_failed"])
            /\ UNCHANGED poll_ret
       ELSE LET run_data == WithRunId(response.body, poll_run_id[1])
                status == IF "status" \in DOMAIN run_data
                          THEN Some(run_data.status) ELSE None
            IN  /\ poll_log' = Append(poll_log, [kind |-> "get", status |-> status])
                /\ UNCHANGED poll_exc
                /\ IF IsTerminal(status)
                   THEN poll_pc' = "returned" /\ poll_ret' = Some(run_data)
                   ELSE poll_pc' = "sleep" /\ UNCHANGED poll_ret
    /\ UNCHANGED poll_run_id
    /\ UNCHANGED << config_vars, pipeline_vars, fn_vars, RUN_POLL_INTERVAL_S,
                    RUN_POLL_TIMEOUT_S, li_pc, li_input_file, leads_df, li_idx,
                    li_lead_vars, results, runs_created, li_raised, li_exported >>

\* Line 157: time.sleep(poll_interval)
PollSleep ==
    /\ poll_pc = "sleep"
    /\ poll_clock' = poll_clock + RUN_POLL_INTERVAL_S
    /\ poll_log' = Append(poll_log, [kind |-> "sleep"])
    /\ poll_pc' = "check"
    /\ UNCHANGED << poll_run_id, poll_ret, poll_exc >>
    /\ UNCHANGED << config_vars, pipeline_vars, fn_vars, RUN_POLL_INTERVAL_S,
                    RUN_POLL_TIMEOUT_S, li_pc, li_input_file, leads_df, li_idx,
                    li_lead_vars, results, runs_created, li_raised, li_exported >>

\* A direct call of poll_run_until_complete, for every interval and timeout.
InitPoll ==
    /\ INCLUDE_RISKY = FALSE
    /\ MAX_PATTERNS_PER_LEAD = DEFAULT_MAX_PATTERNS_PER_LEAD
    /\ PipelineIdle
    /\ fn = "" /\ fn_first = << >> /\ fn_last = << >> /\ fn_domain = << >>
    /\ fn_ret = None
    /\ RUN_POLL_INTERVAL_S \in 1..MaxPollInterval
    /\ RUN_POLL_TIMEOUT_S \in 0..MaxPollTimeout
    /\ li_pc = "direct"
    /\ li_input_file = None
    /\ leads_df = << >>
    /\ li_idx = 0
    /\ linkedin_url = << >> /\ note = << >>
    /\ profile_visit_result = None /\ connect_result = None
    /\ results = << >>
    /\ runs_created = << >>
    /\ li_raised = None
    /\ li_exported = FALSE
    /\ poll_pc = "check"
    /\ poll_run_id = Some(1)
    /\ poll_clock = 0
    /\ poll_log = << >>
    /\ poll_ret = None
    /\ poll_exc = None

NextPoll ==
    \/ PollCheck
    \/ \E response \in GetRunResponses, ticks \in 0..MaxGetRunTicks :
           PollGetRun(response, ticks)
    \/ PollSleep

SpecPoll == InitPoll /\ [][NextPoll]_vars

\* The scheduler runs the call: a step that can be taken is taken.
SpecPollFair == SpecPoll /\ WF_vars(NextPoll)

\* ------------------------------- properties of poll_run_until_complete

PollEnded == poll_pc \in {"returned", "raised"}

\* The i-th entry of the log of a polling loop: check, get_run, sleep, in turn.
PollLogKind(i) == IF i % 3 = 1 THEN "check" ELSE IF i % 3 = 2 THEN "get" ELSE "sleep"

PollInv ==
    /\ poll_pc = "returned" <=> poll_ret # None
    /\ poll_pc = "raised" <=> poll_exc # None
    /\ poll_ret # None =>
           /\ "status" \in DOMAIN poll_ret[1]
           /\ poll_ret[1].status \in {"completed", "failed"}
           /\ poll_ret[1].run_id = poll_run_id[1]
           /\ poll_log[Len(poll_log)] = [kind |-> "get", status |-> Some(poll_ret[1].status)]
    /\ \A i \in 1..Len(poll_log) :
           \/ poll_log[i].kind = PollLogKind(i)
           \/ i = Len(poll_log) /\ poll_log[i].kind = "get_failed" /\ PollLogKind(i) = "get"
    /\ \A i \in 1..Len(poll_log) :
           (poll_log[i].kind = "get" /\ i < Len(poll_log)) =>
               ~IsTerminal(poll_log[i].status)
    /\ \A i \in 1..Len(poll_log) :
           poll_log[i].kind = "check" =>
               (poll_log[i].elapsed > RUN_POLL_TIMEOUT_S
                    <=> (i = Len(poll_log) /\ poll_exc = Some("TimeoutError")))

\* C27: poll_run_until_complete returns only run data whose status is
\* completed or failed; until then every get_run that gave another status is
\* followed by one sleep and the next check of the elapsed time; TimeoutError
\* is raised at the first check that finds the elapsed time above the timeout
\* and at no other; and the call ends, by return or by an exception.
C27_PollReturnsTerminalOrRaises == []PollInv /\ <>PollEnded

\* Two get_run calls answered with a non-terminal status, a sleep after each,
\* and TimeoutError at the third check.
C27_Witness ==
    /\ poll_exc = Some("TimeoutError")
    /\ Len(poll_log) = 7
    /\ poll_log[2] = [kind |-> "get", status |-> Some("running")]
    /\ poll_log[5] = [kind |-> "get", status |-> None]

\* A run that is running at the first poll and completed at the second.
C27_WitnessReturn ==
    /\ poll_pc = "returned"
    /\ Len(poll_log) = 5
    /\ poll_ret[1].status = "completed"

\* ------------------------------------------- LinkedInAutomationPipeline

LinkedInRequiredCols == {"linkedin_url", "note"}

\* A lead with both fields, one with a blank linkedin_url, one with a blank note.
LinkedInRows ==
    { [linkedin_url |-> Some(<< "u" >>), note |-> Some(<< "n" >>)],
      [linkedin_url |-> Some(<< " " >>), note |-> Some(<< "n" >>)],
      [linkedin_url |-> Some(<< "u" >>), note |-> Some(<< " " >>)] }

\* The states of the LinkedIn INPUT_LEADS_CSV: no file, a file lacking one of
\* the two columns, or a file with both and up to MaxLeads rows.
LinkedInInputFiles ==
    { None }
    \cup { Some([columns |-> LinkedInRequiredCols \ {c}, rows |-> << >>]) :
             c \in LinkedInRequiredCols }
    \cup { Some([columns |-> LinkedInRequiredCols, rows |-> rs]) :
             rs \in SeqsUpTo(LinkedInRows, MaxLeads) }

\* Lines 290-309: the exception raised, or the DataFrame's rows.
linkedin_load_leads(file) ==
    IF file = None
    THEN [raised |-> Some("FileNotFoundError"), df |-> << >>]
    ELSE IF LinkedInRequiredCols \ file[1].columns # {}
    THEN [raised |-> Some("ValueError"), df |-> << >>]
    ELSE [raised |-> None, df |-> file[1].rows]

\* The except branch answering with a completed status.
ExceptResult_completed(exc) == [run_id |-> None, status |-> "completed", error |-> Some(exc)]

\* Lines 444-451 and 496-503: the dict returned from the except branch
\* (run_id "" is None here, error is str(e)).
ExceptResult(exc) == [run_id |-> None, status |-> "failed", error |-> Some(exc)]

\* Lines 437-442 and 489-494: the dict returned after the poll.
RunResult(run_id, final_run) ==
    [run_id |-> Some(run_id),
     status |-> final_run.status,
     error |-> IF "error" \in DOMAIN final_run THEN Some(final_run.error) ELSE None]

\* The connection request sent whatever the profile visit gave.
ConnectAfterVisit_always(profile_visit_status) == TRUE

\* Line 363: if profile_visit_status == "completed"
ConnectAfterVisit(profile_visit_status) == profile_visit_status = "completed"

\* Lines 322-333 and 337-348: the record of a skipped lead.
SkippedResult(url, nt, why) ==
    [linkedin_url |-> url, note |-> nt,
     profile_visit_status |-> "skipped", profile_visit_error |-> why,
     profile_visit_run_id |-> None,
     connect_status |-> "skipped", connect_error |-> why,
     connect_run_id |-> None,
     success |-> FALSE]

\* error or "", for an error message or None.
ErrorText(error) == IF error = None THEN "" ELSE error[1]

\* Lines 363-393: connect_status, connect_error and the result record.
\* connect_result is read only where line 363 has bound it.
BuildResult(url, nt, visit, connect) ==
    LET connected == ConnectAfterVisit(visit.status)
        connect_status == IF connected THEN connect[1].status ELSE "skipped"
        connect_error == IF connected THEN connect[1].error
                         ELSE Some("Profile visit failed")
    IN  [linkedin_url |-> url, note |-> nt,
         profile_visit_status |-> visit.status,
         profile_visit_error |-> ErrorText(visit.error),
         profile_visit_run_id |-> visit.run_id,
         connect_status |-> connect_status,
         connect_error |-> ErrorText(connect_error),
         connect_run_id |-> IF visit.status = "completed" THEN connect[1].run_id ELSE None,
         success |-> (visit.status = "completed" /\ connect_status = "completed")]

InitLinkedIn ==
    /\ INCLUDE_RISKY = FALSE
    /\ MAX_PATTERNS_PER_LEAD = DEFAULT_MAX_PATTERNS_PER_LEAD
    /\ PipelineIdle
    /\ fn = "" /\ fn_first = << >> /\ fn_last = << >> /\ fn_domain = << >>
    /\ fn_ret = None
    /\ RUN_POLL_INTERVAL_S \in {1}
    /\ RUN_POLL_TIMEOUT_S \in {1}
    /\ li_pc = "ensure_account"
    /\ li_input_file \in LinkedInInputFiles
    /\ leads_df = << >>
    /\ li_idx = 0
    /\ linkedin_url = << >> /\ note = << >>
    /\ profile_visit_result = None /\ connect_result = None
    /\ results = << >>
    /\ runs_created = << >>
    /\ li_raised = None
    /\ li_exported = FALSE
    /\ PollIdle

\* Lines 247-275: the account is found, or created, or the API call raises.
EnsureAccountExists(outcome) ==
    /\ li_pc = "ensure_account"
    /\ IF outcome = "error"
       THEN li_pc' = "raised" /\ li_raised' = Some("RequestException")
       ELSE li_pc' = "load_leads" /\ UNCHANGED li_raised
    /\ UNCHANGED << config_vars, pipeline_vars, fn_vars, RUN_POLL_INTERVAL_S,
                    RUN_POLL_TIMEOUT_S, li_input_file, leads_df, li_idx, li_lead_vars,
                    results, runs_created, li_exported, poll_vars >>

\* Lines 286 and 290-309.
LinkedInLoadLeads ==
    /\ li_pc = "load_leads"
    /\ LET loaded == linkedin_load_leads(li_input_file)
       IN  /\ li_raised' = loaded.raised
           /\ leads_df' = loaded.df
           /\ li_pc' = IF loaded.raised = None THEN "next_lead" ELSE "raised"
    /\ UNCHANGED << config_vars, pipeline_vars, fn_vars, RUN_POLL_INTERVAL_S,
                    RUN_POLL_TIMEOUT_S, li_input_file, li_idx, li_lead_vars,
                    results, runs_created, li_exported, poll_vars >>

\* Lines 319-354: take the next row; a row without linkedin_url or note gets
\* its "skipped" record at once.  With no row left _process_leads returns.
ProcessNextLead ==
    /\ li_pc = "next_lead"
    /\ IF li_idx = Len(leads_df)
       THEN /\ li_pc' = "export"
            /\ UNCHANGED << li_idx, linkedin_url, note, results >>
       ELSE LET lead == leads_df[li_idx + 1]
                url == Strip(CellStr(LeadGet(lead, "linkedin_url")))
                nt == Strip(CellStr(LeadGet(lead, "note")))
            IN  /\ li_idx' = li_idx + 1
                /\ linkedin_url' = url
                /\ note' = nt
                /\ IF ~Truthy(url)
                   THEN /\ results' = Append(results,
                                SkippedResult(url, nt, "Missing linkedin_url"))
                        /\ li_pc' = "next_lead"
                   ELSE IF ~Truthy(nt)
                   THEN /\ results' = Append(results,
                                SkippedResult(url, nt, "Missing note"))
                        /\ li_pc' = "next_lead"
                   ELSE /\ li_pc' = "visit"
                        /\ UNCHANGED results
    /\ UNCHANGED << config_vars, pipeline_vars, fn_vars, RUN_POLL_INTERVAL_S,
                    RUN_POLL_TIMEOUT_S, li_input_file, leads_df, profile_visit_result,
                    connect_result, runs_created, li_raised, li_exported, poll_vars >>

\* Lines 358-377: after _visit_profile, on to the connection request or
\* straight to the record.
AfterVisit(result) == IF ConnectAfterVisit(result.status) THEN "connect" ELSE "record"

\* Lines 412-428 and 461-474: create_run for the visit or the connection
\* request.  The run is created and polling starts, or create_run raises and
\* the except branch returns the failed dict.
CreateRun(outcome) ==
    /\ li_pc \in {"visit", "connect"}
    /\ IF outcome = "error"
       THEN /\ IF li_pc = "visit"
               THEN /\ profile_visit_result' = Some(ExceptResult("RequestException"))
                    /\ li_pc' = AfterVisit(ExceptResult("RequestException"))
                    /\ UNCHANGED connect_result
               ELSE /\ connect_result' = Some(ExceptResult("RequestException"))
                    /\ li_pc' = "record"
                    /\ UNCHANGED profile_visit_result
            /\ UNCHANGED << runs_created, poll_vars >>
       ELSE LET run_id == Len(runs_created) + 1
            IN  /\ runs_created' = Append(runs_created,
                        [run_id |-> run_id,
                         type |-> IF li_pc = "visit" THEN "profile_visit" ELSE "connect",
                         url |-> linkedin_url,
                         lead_idx |-> li_idx])
                /\ PollStarted(run_id)
                /\ li_pc' = IF li_pc = "visit" THEN "visit_poll" ELSE "connect_poll"
                /\ UNCHANGED << profile_visit_result, connect_result >>
    /\ UNCHANGED << config_vars, pipeline_vars, fn_vars, RUN_POLL_INTERVAL_S,
                    RUN_POLL_TIMEOUT_S, li_input_file, leads_df, li_idx, linkedin_url,
                    note, results, li_raised, li_exported >>

\* Lines 431-451 and 483-503: the poll has returned or raised; the result dict
\* is built, and after the visit line 363 decides on the connection request.
FinishRun ==
    /\ li_pc \in {"visit_poll", "connect_poll"}
    /\ PollEnded
    /\ LET result == IF poll_pc = "returned"
                     THEN RunResult(poll_run_id[1], poll_ret[1])
                     ELSE ExceptResult(poll_exc[1])
       IN  IF li_pc = "visit_poll"
           THEN /\ profile_visit_result' = Some(result)
                /\ li_pc' = AfterVisit(result)
                /\ UNCHANGED connect_result
           ELSE /\ connect_result' = Some(result)
                /\ li_pc' = "record"
                /\ UNCHANGED profile_visit_result
    /\ UNCHANGED << config_vars, pipeline_vars, fn_vars, RUN_POLL_INTERVAL_S,
                    RUN_POLL_TIMEOUT_S, li_input_file, leads_df, li_idx, linkedin_url,
                    note, results, runs_created, li_raised, li_exported, poll_vars >>

\* Lines 379-401: the result record is built and appended (the pause of
\* 1.0 s before the next lead changes nothing that is kept).
AppendResult ==
    /\ li_pc = "record"
    /\ results' = Append(results,
           BuildResult(linkedin_url, note, profile_visit_result[1], connect_result))
    /\ li_pc' = "next_lead"
    /\ UNCHANGED << config_vars, pipeline_vars, fn_vars, RUN_POLL_INTERVAL_S,
                    RUN_POLL_TIMEOUT_S, li_input_file, leads_df, li_idx, li_lead_vars,
                    runs_created, li_raised, li_exported, poll_vars >>

\* Lines 287 and 505-528.
LinkedInExportCsv ==
    /\ li_pc = "export"
    /\ li_exported' = TRUE
    /\ li_pc' = "done"
    /\ UNCHANGED << config_vars, pipeline_vars, fn_vars, RUN_POLL_INTERVAL_S,
                    RUN_POLL_TIMEOUT_S, li_input_file, leads_df, li_idx, li_lead_vars,
                    results, runs_created, li_raised, poll_vars >>

\* The polling runs only inside _visit_profile or _send_connection_request.
NextLinkedIn ==
    \/ \E outcome \in {"exists", "created", "error"} : EnsureAccountExists(outcome)
    \/ LinkedInLoadLeads
    \/ ProcessNextLead
    \/ \E outcome \in {"created", "error"} : CreateRun(outcome)
    \/ FinishRun
    \/ AppendResult
    \/ LinkedInExportCsv
    \/ PollCheck
    \/ \E response \in GetRunResponses, ticks \in 0..MaxGetRunTicks :
           PollGetRun(response, ticks)
    \/ PollSleep

SpecLinkedIn == InitLinkedIn /\ [][NextLinkedIn]_vars

\* ------------------------------------ properties of the LinkedIn pipeline

\* The runs created for the lead of row idx, in order.
RunsOfLead(idx) ==
    SelectSeq(runs_created, LAMBDA r : r.lead_idx = idx)

\* C25: a connection-request run exists only for a lead whose profile-visit
\* run was created before it and ended completed; while it is created or
\* polled the visit result held is completed; and in every record a visit
\* that is not completed goes with connect_status "skipped", no connect run
\* and no connect_run_id, and success is true exactly when both statuses are
\* completed.
C25_ConnectOnlyAfterCompletedVisit ==
    /\ \A k \in 1..Len(runs_created) :
           runs_created[k].type = "connect" =>
               /\ k > 1
               /\ runs_created[k - 1].type = "profile_visit"
               /\ runs_created[k - 1].lead_idx = runs_created[k].lead_idx
    /\ li_pc \in {"connect", "connect_poll"} =>
           /\ profile_visit_result # None
           /\ profile_visit_result[1].status = "completed"
           /\ profile_visit_result[1].run_id = Some(RunsOfLead(li_idx)[1].run_id)
    /\ \A i \in 1..Len(results) :
           /\ results[i].success <=>
                  (results[i].profile_visit_status = "completed"
                       /\ results[i].connect_status = "completed")
           /\ results[i].profile_visit_status # "completed" =>
                  /\ results[i].connect_status = "skipped"
                  /\ results[i].connect_run_id = None
                  /\ \A k \in 1..Len(runs_created) :
                         runs_created[k].lead_idx = i => runs_created[k].type # "connect"

\* A lead whose visit timed out and a lead whose visit and connection request
\* both completed.
C25_Witness ==
    /\ Len(results) = 2
    /\ results[1].profile_visit_error = "TimeoutError"
    /\ results[1].connect_status = "skipped"
    /\ Len(RunsOfLead(1)) = 1
    /\ results[2].success
    /\ Len(RunsOfLead(2)) = 2

\* A visit that ended failed by its run status: no connect run.
C25_WitnessFailedRun ==
    /\ Len(results) = 1
    /\ results[1].profile_visit_status = "failed"
    /\ results[1].profile_visit_error = "boom"
    /\ results[1].connect_status = "skipped"

RaisedForLead(result) == result.error \in {Some("RequestException"), Some("TimeoutError")}

\* C26: once the leads are loaded no exception leaves the run; a poll that
\* raised and a create_run that raised give the lead a result with status
\* "failed" and no run id; every row taken has exactly one record, in input
\* order, and the run reaches the export with one record per input row.
C26_LeadErrorsBecomeFailed ==
    /\ li_pc \notin {"ensure_account", "load_leads", "raised"} => li_raised = None
    /\ (li_pc = "record" /\ poll_exc # None /\ poll_run_id = Some(Len(runs_created))) =>
           LET last == IF connect_result # None /\ profile_visit_result[1].status = "completed"
                       THEN connect_result[1] ELSE profile_visit_result[1]
           IN  last.status = "failed"
    /\ \A r \in {profile_visit_result, connect_result} :
           (r # None /\ RaisedForLead(r[1])) => r[1].status = "failed" /\ r[1].run_id = None
    /\ li_pc \in {"next_lead", "export", "done"} => Len(results) = li_idx
    /\ li_pc \in {"visit", "visit_poll", "connect", "connect_poll", "record"} =>
           Len(results) = li_idx - 1
    /\ \A i \in 1..Len(results) :
           /\ results[i].linkedin_url = Strip(CellStr(LeadGet(leads_df[i], "linkedin_url")))
           /\ RaisedForLead([error |-> Some(results[i].profile_visit_error)]) =>
                  results[i].profile_visit_status = "failed"
           /\ RaisedForLead([error |-> Some(results[i].connect_error)]) =>
                  results[i].connect_status = "failed"
    /\ li_pc \in {"export", "done"} => Len(results) = Len(leads_df)

\* A lead whose create_run raised for the visit, then a lead whose connection
\* request timed out: two records and the run is done.
C26_Witness ==
    /\ li_pc = "done"
    /\ Len(results) = 2
    /\ results[1].profile_visit_error = "RequestException"
    /\ results[1].profile_visit_status = "failed"
    /\ results[2].connect_error = "TimeoutError"
    /\ results[2].connect_status = "failed"

\* A skipped lead does not stop the lead after it.
C26_WitnessSkipped ==
    /\ li_pc = "done"
    /\ Len(results) = 2
    /\ results[1].profile_visit_status = "skipped"
    /\ results[2].success

====
